--------------------------- MODULE Spec2Model ---------------------------
(***************************************************************************)
(* Medexa-AI request handlers (src/app.py): the /get conversational        *)
(* pipeline with its pre-check, the three-model fallback chain, the        *)
(* process-wide chat_history list, and the four auxiliary endpoints.       *)
(*                                                                         *)
(* Texts are sequences of one-character strings, so that lower(), strip()  *)
(* and the substring test of the pre-check are computed, not assumed.      *)
(* Requests run on threads of the Flask development server; the only       *)
(* shared state is the global name chat_history and the list objects it    *)
(* has been bound to, modelled as a heap of list objects.                  *)
(***************************************************************************)
EXTENDS Integers, Sequences, FiniteSets, TLC

VARIABLES
    heap,          \* list objects: object id -> sequence of messages
    chat_history,  \* the global name chat_history: id of the list it is bound to
    pc,            \* per thread: position in the handler it is running
    endpoint,      \* per thread: the route being served
    req,           \* per thread: the request's inputs (form fields, files, JSON)
    answer,        \* per thread: local variable answer of chat()
    ref,           \* per thread: list object held on the evaluation stack
    calls,         \* per thread: backend calls of this request so far, in order
    resp,          \* per thread: the response of the request
    context,       \* per thread: passages retrieved for the answer prompt
    hist0,         \* per thread: chat_history's contents when the request arrived
    started        \* requests accepted so far, counted where the run is bounded

vars == <<heap, chat_history, pc, endpoint, req, answer, ref, calls, resp,
          context, hist0, started>>

-----------------------------------------------------------------------------
(* Bounds *)

\* request threads of the server
NumThreads == 2

\* requests accepted in a bounded run
MaxRequests == 5

Threads == 1..NumThreads

-----------------------------------------------------------------------------
(* Program constants *)

\* chat_history[-6:]
HistoryCap == 6

\* search_kwargs={"k": 3}
TopK == 3

KW_CHEST_PAIN ==
    <<"c","h","e","s","t"," ","p","a","i","n">>
KW_CHOKING ==
    <<"c","h","o","k","i","n","g">>
KW_STROKE ==
    <<"s","t","r","o","k","e">>
KW_BLEEDING ==
    <<"b","l","e","e","d","i","n","g">>
KW_UNCONSCIOUS ==
    <<"u","n","c","o","n","s","c","i","o","u","s">>
KW_CANT_BREATHE ==
    <<"c","a","n","'","t"," ","b","r","e","a","t","h","e">>
TRIGGER_EMERGENCY ==
    <<"T","R","I","G","G","E","R","_","E","M","E","R","G","E","N","C","Y">>
CHAT_BUSY_MSG ==
    <<"T","h","e"," ","A","I"," ","a","s","s","i","s","t","a","n","t"," ","i","s"," ","t","e","m","p","o","r","a","r","i","l","y"," ","b","u","s","y","."," ","P","l","e","a","s","e"," ","t","r","y"," ","a","g","a","i","n",".">>
IMAGE_SENT ==
    <<"I","m","a","g","e"," ","s","e","n","t">>
ANALYZE_THIS_IMAGE ==
    <<"A","n","a","l","y","z","e"," ","t","h","i","s"," ","i","m","a","g","e">>
NO_REPORT_MSG ==
    <<"N","o"," ","r","e","p","o","r","t"," ","p","r","o","v","i","d","e","d",".">>
LAB_BUSY_MSG ==
    <<"S","e","r","v","i","c","e"," ","t","e","m","p","o","r","a","r","i","l","y"," ","b","u","s","y","."," ","P","l","e","a","s","e"," ","w","a","i","t"," ","3","0"," ","s","e","c","o","n","d","s"," ","a","n","d"," ","r","e","t","r","y",".">>
ANALYZE_MEDS ==
    <<"A","n","a","l","y","z","e"," ","m","e","d","s">>
NO_NOTES_MSG ==
    <<"N","o"," ","n","o","t","e","s"," ","p","r","o","v","i","d","e","d",".">>
FORMAT_FAILED_MSG ==
    <<"A","I"," ","f","a","i","l","e","d"," ","t","o"," ","f","o","r","m","a","t"," ","n","o","t","e","s","."," ","T","r","y"," ","a","g","a","i","n",".">>
REPORT_FAILED_PREFIX ==
    <<"F","a","i","l","e","d"," ","t","o"," ","g","e","n","e","r","a","t","e"," ","r","e","p","o","r","t",":"," ">>
INTERNAL_SERVER_ERROR ==
    <<"I","n","t","e","r","n","a","l"," ","S","e","r","v","e","r"," ","E","r","r","o","r">>

TRACEBACK_PREFIX ==
    <<"T","r","a","c","e","b","a","c","k"," ","(","m","o","s","t"," ","r","e","c","e","n","t"," ","c","a","l","l"," ","l","a","s","t",")",":"," ">>
JSON_DECODE_ERROR ==
    <<"E","x","p","e","c","t","i","n","g"," ","v","a","l","u","e">>
INSIGHT_KEY ==
    <<"i","n","s","i","g","h","t">>
SCORE_KEY ==
    <<"s","c","o","r","e">>
RESULT_KEY ==
    <<"r","e","s","u","l","t">>
ERROR_KEY ==
    <<"e","r","r","o","r">>

\* emergency_keywords of chat()
emergency_keywords ==
    <<KW_CHEST_PAIN, KW_CHOKING, KW_STROKE, KW_BLEEDING, KW_UNCONSCIOUS,
      KW_CANT_BREATHE>>

-----------------------------------------------------------------------------
(* Text helpers: str.lower, str.strip, the `in` substring test, `or` *)

UpperCase ==
    <<"A","B","C","D","E","F","G","H","I","J","K","L","M","N","O","P","Q","R","S","T","U","V","W","X","Y","Z">>

LowerCase ==
    <<"a","b","c","d","e","f","g","h","i","j","k","l","m","n","o","p","q","r","s","t","u","v","w","x","y","z">>

LowerChar(c) ==
    IF \E i \in 1..Len(UpperCase) : UpperCase[i] = c
    THEN LowerCase[CHOOSE i \in 1..Len(UpperCase) : UpperCase[i] = c]
    ELSE c

\* str.lower()
Lower(s) == [i \in 1..Len(s) |-> LowerChar(s[i])]

IsSpace(c) == c \in {" ", "\t", "\n"}

\* str.strip()
Strip(s) ==
    LET keep == {i \in 1..Len(s) : ~IsSpace(s[i])}
    IN  IF keep = {} THEN << >>
        ELSE LET lo == CHOOSE i \in keep : \A j \in keep : i <= j
                 hi == CHOOSE i \in keep : \A j \in keep : j <= i
             IN  SubSeq(s, lo, hi)

\* k in s
Contains(s, k) ==
    \E i \in 0..(Len(s) - Len(k)) : SubSeq(s, i + 1, i + Len(k)) = k

StartsWith(s, k) == Len(k) <= Len(s) /\ SubSeq(s, 1, Len(k)) = k

\* a or b, on strings
OrElse(a, b) == IF a # << >> THEN a ELSE b

SeqToSet(s) == {s[i] : i \in 1..Len(s)}

\* the last n elements: s[-n:]
LastN(s, n) == IF Len(s) <= n THEN s ELSE SubSeq(s, Len(s) - n + 1, Len(s))

-----------------------------------------------------------------------------
(* Messages and prompts *)

None == <<"None">>

HumanMessage(content) == [role |-> "user", content |-> content]

AIMessage(content) == [role |-> "assistant", content |-> content]

\* request.files.get(name) when the part is absent
NoFile == [present |-> FALSE, filename |-> << >>, data |-> << >>]

\* an uploaded file is truthy iff its filename is not empty
FileTruthy(image_file) == image_file.present /\ image_file.filename # << >>

\* encode_image: base64 of the bytes read from the file
encode_image(image_file) == <<"b64", image_file.data>>

-----------------------------------------------------------------------------
(* The fallback chain: primary_model.with_fallbacks([secondary, tertiary]) *)

Backends == {"primary_model", "secondary_model", "tertiary_model"}

\* A backend attempt either returns a message (ok, value = its content, which
\* may be empty) or raises (value = the text of the exception).
Returned(text) == [ok |-> TRUE, value |-> text]

Raised(text) == [ok |-> FALSE, value |-> text]

\* What each backend would do if invoked now.
Worlds(outputs, errors) ==
    [Backends -> {Returned(o) : o \in outputs} \cup {Raised(e) : e \in errors}]

\* RunnableWithFallbacks.invoke: the runnables in order; an exception is
\* recorded (the first one kept) and the next runnable tried; the first
\* return is the result; after the last one first_error is raised.
\* attempts lists, in order, each runnable invoked and what it did.
RECURSIVE InvokeFrom(_, _, _, _, _)
InvokeFrom(runnables, world, i, first_error, attempts) ==
    IF i > Len(runnables)
    THEN [ok |-> FALSE, value |-> first_error, attempts |-> attempts]
    ELSE LET o == world[runnables[i]]
             tried == Append(attempts, [backend |-> runnables[i], ok |-> o.ok,
                                        value |-> o.value])
         IN  IF o.ok
             THEN [ok |-> TRUE, value |-> o.value, attempts |-> tried]
             ELSE InvokeFrom(runnables, world, i + 1,
                             IF first_error = None THEN o.value ELSE first_error,
                             tried)

with_fallbacks(runnables, world) == InvokeFrom(runnables, world, 1, None, << >>)

\* the priority order of the chain
chain == <<"primary_model", "secondary_model", "tertiary_model">>

\* Faulty variant: the secondary model is tried before the primary.
chat_model_SecondaryFirst(world) ==
    with_fallbacks(<<"secondary_model", "primary_model", "tertiary_model">>, world)

\* chat_model.invoke in a world
chat_model(world) == with_fallbacks(chain, world)

\* The record of one chat_model.invoke in a request's call log.
GenerateCall(purpose, prompt, world) ==
    LET r == chat_model(world)
    IN  [op |-> "generate", purpose |-> purpose, prompt |-> prompt,
         ok |-> r.ok, value |-> r.value, attempts |-> r.attempts]

\* The record of one retriever query in a request's call log.
RetrieverCall(query, result) ==
    [op |-> "retriever", purpose |-> "retrieve",
     prompt |-> [query |-> query, k |-> TopK],
     ok |-> result.ok, value |-> result.value, attempts |-> << >>]

-----------------------------------------------------------------------------
(* Responses *)

NoResponse == [status |-> 0, kind |-> "none", body |-> << >>]

\* return text, status
TextResponse(status, text) == [status |-> status, kind |-> "text", body |-> text]

\* jsonify(dict): body is the dict as a sequence of <<key, value>> pairs
JsonResponse(status, dict) == [status |-> status, kind |-> "json", body |-> dict]

\* send_file(...)
FileResponse(doc) == [status |-> 200, kind |-> "file", body |-> doc]

RECURSIVE JsonEscape(_)
JsonEscape(s) ==
    IF s = << >> THEN << >>
    ELSE (IF Head(s) \in {"\"", "\\"} THEN <<"\\", Head(s)>> ELSE <<Head(s)>>)
         \o JsonEscape(Tail(s))

Digits == <<"0","1","2","3","4","5","6","7","8","9">>

RECURSIVE IntToText(_)
IntToText(n) ==
    IF n < 10 THEN <<Digits[n + 1]>>
    ELSE IntToText(n \div 10) \o <<Digits[(n % 10) + 1]>>

JsonValue(v) ==
    IF v.type = "int" THEN IntToText(v.v)
    ELSE <<"\"">> \o JsonEscape(v.v) \o <<"\"">>

RECURSIVE JsonMembers(_)
JsonMembers(dict) ==
    IF dict = << >> THEN << >>
    ELSE <<"\"">> \o Head(dict)[1] \o <<"\"", ":">> \o JsonValue(Head(dict)[2])
         \o (IF Len(dict) > 1 THEN <<",">> ELSE << >>)
         \o JsonMembers(Tail(dict))

\* The bytes of a response body as the client receives them.
Wire(r) ==
    IF r.kind = "json" THEN <<"{">> \o JsonMembers(r.body) \o <<"}">>
    ELSE r.body

-----------------------------------------------------------------------------
(* The heap of list objects *)

ObjIds == 0..NumThreads

Live(o, g, r) == o = g \/ \E t \in Threads : o \in r[t]

\* Objects nothing refers to are collected.
Collect(h, g, r) == [o \in ObjIds |-> IF Live(o, g, r) THEN h[o] ELSE << >>]

\* The id a new list object of thread t gets: the least one nothing will
\* refer to once t has given up the list it holds (the slice consumes it).
NewObj(t) ==
    LET r == [ref EXCEPT ![t] = {}]
    IN  CHOOSE o \in ObjIds :
            /\ ~Live(o, chat_history, r)
            /\ \A p \in ObjIds : ~Live(p, chat_history, r) => o <= p

\* The list a thread holds on its stack.
Held(t) == CHOOSE o \in ref[t] : TRUE

-----------------------------------------------------------------------------
(* Request acceptance and the common endings *)

\* A thread takes a request; with solo clients only when no other request
\* is in flight, and in a bounded run only so many times.
Accept(t, E) ==
    /\ pc[t] = "idle"
    /\ E.solo => \A u \in Threads : pc[u] = "idle"
    /\ E.bounded => started < MaxRequests
    /\ started' = (IF E.bounded THEN started + 1 ELSE started)

\* The handler returns: the response is set and the locals die.
Finish(t, r) ==
    /\ resp' = [resp EXCEPT ![t] = r]
    /\ pc' = [pc EXCEPT ![t] = "done"]
    /\ ref' = [ref EXCEPT ![t] = {}]
    /\ heap' = Collect(heap, chat_history, [ref EXCEPT ![t] = {}])
    /\ UNCHANGED chat_history

\* Faulty variant: the user turn is in the history before the failure is answered.
ChatExcept_KeepsUserTurn(t) ==
    /\ resp' = [resp EXCEPT ![t] = TextResponse(500, CHAT_BUSY_MSG)]
    /\ pc' = [pc EXCEPT ![t] = "done"]
    /\ ref' = [ref EXCEPT ![t] = {}]
    /\ heap' = Collect([heap EXCEPT ![chat_history] =
                            Append(@, [role |-> "user", content |-> req[t].user_input])],
                       chat_history, [ref EXCEPT ![t] = {}])
    /\ UNCHANGED chat_history

\* Faulty variant: the failure is answered as an empty answer.
ChatExcept_EmptyAnswer(t) == Finish(t, TextResponse(200, << >>))

\* except Exception of chat(): the fixed message with status 500
ChatExcept(t) == Finish(t, TextResponse(500, CHAT_BUSY_MSG))

\* The client has the response; the thread is free again.
Return(t) ==
    /\ pc[t] = "done"
    /\ pc' = [pc EXCEPT ![t] = "idle"]
    /\ endpoint' = [endpoint EXCEPT ![t] = "none"]
    /\ req' = [req EXCEPT ![t] = << >>]
    /\ answer' = [answer EXCEPT ![t] = << >>]
    /\ calls' = [calls EXCEPT ![t] = << >>]
    /\ resp' = [resp EXCEPT ![t] = NoResponse]
    /\ context' = [context EXCEPT ![t] = << >>]
    /\ hist0' = [hist0 EXCEPT ![t] = << >>]
    /\ UNCHANGED <<heap, chat_history, ref>>
    /\ UNCHANGED started

-----------------------------------------------------------------------------
(* FEATURE 1: /get, chat() *)

\* request.form.get(name, default)
FormGet(field, default) == IF field = None THEN default ELSE field

\* Faulty variant: the keywords are matched without lower().
PreCheck_CaseSensitive(user_input) ==
    /\ user_input # << >>
    /\ \E k \in SeqToSet(emergency_keywords) : Contains(user_input, k)

\* any(k in user_input.lower() for k in emergency_keywords), guarded by
\* user_input being non-empty
PreCheck(user_input) ==
    /\ user_input # << >>
    /\ \E k \in SeqToSet(emergency_keywords) : Contains(Lower(user_input), k)

\* image_file and image_file.filename
HasImage(image_file) == FileTruthy(image_file) /\ image_file.filename # << >>

\* Faulty variant: the user turn is recorded before the pre-check.
Chat_RecordsFirst(t, E) ==
    /\ Accept(t, E)
    /\ \E msg \in E.msgs, image_file \in E.files :
         LET user_input == Strip(FormGet(msg, << >>))
         IN  /\ endpoint' = [endpoint EXCEPT ![t] = "/get"]
             /\ req' = [req EXCEPT ![t] = [msg |-> msg, image_file |-> image_file,
                                           user_input |-> user_input]]
             /\ hist0' = [hist0 EXCEPT ![t] = heap[chat_history]]
             /\ IF PreCheck(user_input)
                THEN /\ resp' = [resp EXCEPT ![t] = TextResponse(200, TRIGGER_EMERGENCY)]
                     /\ pc' = [pc EXCEPT ![t] = "done"]
                     /\ heap' = [heap EXCEPT ![chat_history] =
                                     Append(@, HumanMessage(user_input))]
                ELSE /\ pc' = [pc EXCEPT ![t] = "try"]
                     /\ UNCHANGED <<resp, heap>>
    /\ UNCHANGED <<chat_history, answer, ref, calls, context>>

\* chat() up to the try block: the inputs are read and the pre-check made.
Chat(t, E) ==
    /\ Accept(t, E)
    /\ \E msg \in E.msgs, image_file \in E.files :
         LET user_input == Strip(FormGet(msg, << >>))
         IN  /\ endpoint' = [endpoint EXCEPT ![t] = "/get"]
             /\ req' = [req EXCEPT ![t] = [msg |-> msg, image_file |-> image_file,
                                           user_input |-> user_input]]
             /\ hist0' = [hist0 EXCEPT ![t] = heap[chat_history]]
             /\ IF PreCheck(user_input)
                THEN /\ resp' = [resp EXCEPT ![t] = TextResponse(200, TRIGGER_EMERGENCY)]
                     /\ pc' = [pc EXCEPT ![t] = "done"]
                ELSE /\ pc' = [pc EXCEPT ![t] = "try"]
                     /\ UNCHANGED resp
    /\ UNCHANGED <<heap, chat_history, answer, ref, calls, context>>

\* The content of the multimodal message of the image branch.
ImageContent(user_input, image_file) ==
    [text |-> OrElse(user_input, ANALYZE_THIS_IMAGE),
     image_url |-> encode_image(image_file),
     chat_history |-> << >>]

\* The image branch: one chat_model.invoke on the text and the image.
ChatImage(t, E) ==
    /\ pc[t] = "try"
    /\ endpoint[t] = "/get"
    /\ HasImage(req[t].image_file)
    /\ \E world \in Worlds(E.outputs, E.errors) :
         LET call == GenerateCall("direct",
                        ImageContent(req[t].user_input, req[t].image_file), world)
         IN  /\ calls' = [calls EXCEPT ![t] = Append(@, call)]
             /\ IF call.ok
                THEN /\ answer' = [answer EXCEPT ![t] = call.value]
                     /\ pc' = [pc EXCEPT ![t] = "extend"]
                     /\ UNCHANGED <<heap, chat_history, ref, resp>>
                ELSE /\ ChatExcept(t)
                     /\ UNCHANGED answer
    /\ UNCHANGED <<endpoint, req, context, hist0>>
    /\ UNCHANGED started

\* Faulty variant: the text branch is not an else of the image branch.
ChatRagLoad_NoElse(t) ==
    /\ pc[t] = "try"
    /\ endpoint[t] = "/get"
    /\ ref' = [ref EXCEPT ![t] = {chat_history}]
    /\ pc' = [pc EXCEPT ![t] = "rag"]
    /\ UNCHANGED <<heap, chat_history, endpoint, req, answer, calls, resp,
                   context, hist0>>
    /\ UNCHANGED started

\* rag_chain.invoke({... "chat_history": chat_history}): the global is read
\* and the list it names handed to the chain.
ChatRagLoad(t) ==
    /\ pc[t] = "try"
    /\ endpoint[t] = "/get"
    /\ ~HasImage(req[t].image_file)
    /\ ref' = [ref EXCEPT ![t] = {chat_history}]
    /\ pc' = [pc EXCEPT ![t] = "rag"]
    /\ UNCHANGED <<heap, chat_history, endpoint, req, answer, calls, resp,
                   context, hist0>>
    /\ UNCHANGED started

\* Faulty variant: the retriever is queried with the input, not the rewrite.
ChatRagRetrieve_RawQuery(t, E) ==
    /\ pc[t] = "rag"
    /\ LET history == heap[Held(t)]
           input == req[t].user_input
       IN  \E world \in Worlds(E.queries, E.errors), found \in E.retrievals :
             LET rewrite == GenerateCall("rewrite",
                                [text |-> input, image_url |-> None,
                                 chat_history |-> history], world)
                 rewritten == history # << >>
                 query == input
                 lookup == RetrieverCall(query, found)
             IN  IF rewritten /\ ~rewrite.ok
                 THEN /\ calls' = [calls EXCEPT ![t] = Append(@, rewrite)]
                      /\ ChatExcept(t)
                      /\ UNCHANGED context
                 ELSE /\ calls' = [calls EXCEPT ![t] =
                                     (IF rewritten THEN Append(@, rewrite) ELSE @)
                                     \o <<lookup>>]
                      /\ IF found.ok
                         THEN /\ context' = [context EXCEPT ![t] = found.value]
                              /\ pc' = [pc EXCEPT ![t] = "answer"]
                              /\ UNCHANGED <<heap, chat_history, ref, resp>>
                         ELSE /\ ChatExcept(t)
                              /\ UNCHANGED context
    /\ UNCHANGED <<endpoint, req, answer, hist0>>
    /\ UNCHANGED started

\* Faulty variant: a failed retrieval is answered without passages.
ChatRagRetrieve_Ungrounded(t, E) ==
    /\ pc[t] = "rag"
    /\ LET history == heap[Held(t)]
           input == req[t].user_input
       IN  \E world \in Worlds(E.queries, E.errors), found \in E.retrievals :
             LET rewrite == GenerateCall("rewrite",
                                [text |-> input, image_url |-> None,
                                 chat_history |-> history], world)
                 rewritten == history # << >>
                 query == IF rewritten THEN rewrite.value ELSE input
                 lookup == RetrieverCall(query, found)
             IN  IF rewritten /\ ~rewrite.ok
                 THEN /\ calls' = [calls EXCEPT ![t] = Append(@, rewrite)]
                      /\ ChatExcept(t)
                      /\ UNCHANGED context
                 ELSE /\ calls' = [calls EXCEPT ![t] =
                                     (IF rewritten THEN Append(@, rewrite) ELSE @)
                                     \o <<lookup>>]
                      /\ context' = [context EXCEPT ![t] =
                                        IF found.ok THEN found.value ELSE << >>]
                      /\ pc' = [pc EXCEPT ![t] = "answer"]
                      /\ UNCHANGED <<heap, chat_history, ref, resp>>
    /\ UNCHANGED <<endpoint, req, answer, hist0>>
    /\ UNCHANGED started

\* Faulty variant: the rewrite is called with an empty history too.
ChatRagRetrieve_AlwaysRewrites(t, E) ==
    /\ pc[t] = "rag"
    /\ LET history == heap[Held(t)]
           input == req[t].user_input
       IN  \E world \in Worlds(E.queries, E.errors), found \in E.retrievals :
             LET rewrite == GenerateCall("rewrite",
                                [text |-> input, image_url |-> None,
                                 chat_history |-> history], world)
                 rewritten == TRUE
                 query == IF rewritten THEN rewrite.value ELSE input
                 lookup == RetrieverCall(query, found)
             IN  IF rewritten /\ ~rewrite.ok
                 THEN /\ calls' = [calls EXCEPT ![t] = Append(@, rewrite)]
                      /\ ChatExcept(t)
                      /\ UNCHANGED context
                 ELSE /\ calls' = [calls EXCEPT ![t] =
                                     (IF rewritten THEN Append(@, rewrite) ELSE @)
                                     \o <<lookup>>]
                      /\ IF found.ok
                         THEN /\ context' = [context EXCEPT ![t] = found.value]
                              /\ pc' = [pc EXCEPT ![t] = "answer"]
                              /\ UNCHANGED <<heap, chat_history, ref, resp>>
                         ELSE /\ ChatExcept(t)
                              /\ UNCHANGED context
    /\ UNCHANGED <<endpoint, req, answer, hist0>>
    /\ UNCHANGED started

\* history_aware_retriever: with an empty chat_history the input goes to the
\* retriever as it is; otherwise contextualize_q_prompt | chat_model gives
\* the query. Then the retriever returns up to k passages or raises.
ChatRagRetrieve(t, E) ==
    /\ pc[t] = "rag"
    /\ LET history == heap[Held(t)]
           input == req[t].user_input
       IN  \E world \in Worlds(E.queries, E.errors), found \in E.retrievals :
             LET rewrite == GenerateCall("rewrite",
                                [text |-> input, image_url |-> None,
                                 chat_history |-> history], world)
                 rewritten == history # << >>
                 query == IF rewritten THEN rewrite.value ELSE input
                 lookup == RetrieverCall(query, found)
             IN  IF rewritten /\ ~rewrite.ok
                 THEN /\ calls' = [calls EXCEPT ![t] = Append(@, rewrite)]
                      /\ ChatExcept(t)
                      /\ UNCHANGED context
                 ELSE /\ calls' = [calls EXCEPT ![t] =
                                     (IF rewritten THEN Append(@, rewrite) ELSE @)
                                     \o <<lookup>>]
                      /\ IF found.ok
                         THEN /\ context' = [context EXCEPT ![t] = found.value]
                              /\ pc' = [pc EXCEPT ![t] = "answer"]
                              /\ UNCHANGED <<heap, chat_history, ref, resp>>
                         ELSE /\ ChatExcept(t)
                              /\ UNCHANGED context
    /\ UNCHANGED <<endpoint, req, answer, hist0>>
    /\ UNCHANGED started

\* question_answer_chain: qa_prompt (context, chat_history, input) | chat_model
ChatRagAnswer(t, E) ==
    /\ pc[t] = "answer"
    /\ \E world \in Worlds(E.outputs, E.errors) :
         LET call == GenerateCall("answer",
                        [text |-> req[t].user_input, image_url |-> None,
                         chat_history |-> heap[Held(t)]], world)
         IN  /\ calls' = [calls EXCEPT ![t] = Append(@, call)]
             /\ IF call.ok
                THEN /\ answer' = [answer EXCEPT ![t] = call.value]
                     /\ pc' = [pc EXCEPT ![t] = "extend"]
                     /\ ref' = [ref EXCEPT ![t] = {}]
                     /\ heap' = Collect(heap, chat_history, [ref EXCEPT ![t] = {}])
                     /\ UNCHANGED <<chat_history, resp>>
                ELSE /\ ChatExcept(t)
                     /\ UNCHANGED answer
    /\ UNCHANGED <<endpoint, req, context, hist0>>
    /\ UNCHANGED started

\* chat_history.extend(...): the global is read ...
ChatExtendLoad(t) ==
    /\ pc[t] = "extend"
    /\ ref' = [ref EXCEPT ![t] = {chat_history}]
    /\ pc' = [pc EXCEPT ![t] = "extend_call"]
    /\ UNCHANGED <<heap, chat_history, endpoint, req, answer, calls, resp,
                   context, hist0>>
    /\ UNCHANGED started

\* The two messages appended for an exchange.
Exchange(user_input, text) ==
    <<HumanMessage(OrElse(user_input, IMAGE_SENT)), AIMessage(text)>>

\* ... and the list it named is extended in place.
ChatExtend(t) ==
    /\ pc[t] = "extend_call"
    /\ LET h == [heap EXCEPT ![Held(t)] = @ \o Exchange(req[t].user_input, answer[t])]
       IN  heap' = Collect(h, chat_history, [ref EXCEPT ![t] = {}])
    /\ ref' = [ref EXCEPT ![t] = {}]
    /\ pc' = [pc EXCEPT ![t] = "slice_load"]
    /\ UNCHANGED <<chat_history, endpoint, req, answer, calls, resp, context, hist0>>
    /\ UNCHANGED started

\* chat_history = chat_history[-6:]: the global is read ...
ChatSliceLoad(t) ==
    /\ pc[t] = "slice_load"
    /\ ref' = [ref EXCEPT ![t] = {chat_history}]
    /\ pc' = [pc EXCEPT ![t] = "slice"]
    /\ UNCHANGED <<heap, chat_history, endpoint, req, answer, calls, resp,
                   context, hist0>>
    /\ UNCHANGED started

\* Faulty variant: the slice keeps five.
Truncate_OffByOne(h) == LastN(h, HistoryCap - 1)

\* the slice of a list
Truncate(h) == LastN(h, HistoryCap)

\* ... a new list is made of the last six of the list it named ...
ChatSlice(t) ==
    /\ pc[t] = "slice"
    /\ LET new == NewObj(t)
           r == [ref EXCEPT ![t] = {new}]
       IN  /\ heap' = Collect([heap EXCEPT ![new] = Truncate(heap[Held(t)])],
                              chat_history, r)
           /\ ref' = r
    /\ pc' = [pc EXCEPT ![t] = "store"]
    /\ UNCHANGED <<chat_history, endpoint, req, answer, calls, resp, context, hist0>>
    /\ UNCHANGED started

\* ... and the global is bound to the new list; return str(answer).
ChatStore(t) ==
    /\ pc[t] = "store"
    /\ chat_history' = Held(t)
    /\ ref' = [ref EXCEPT ![t] = {}]
    /\ heap' = Collect(heap, Held(t), [ref EXCEPT ![t] = {}])
    /\ resp' = [resp EXCEPT ![t] = TextResponse(200, answer[t])]
    /\ pc' = [pc EXCEPT ![t] = "done"]
    /\ UNCHANGED <<endpoint, req, answer, calls, context, hist0>>
    /\ UNCHANGED started

-----------------------------------------------------------------------------
(* The auxiliary endpoints. None touches chat_history, so each handler is   *)
(* one step.                                                                *)

\* A handler begins: its inputs are read.
Begin(t, route, inputs) ==
    /\ endpoint' = [endpoint EXCEPT ![t] = route]
    /\ req' = [req EXCEPT ![t] = inputs]
    /\ hist0' = [hist0 EXCEPT ![t] = heap[chat_history]]

\* Faulty variant: the model is called before the image is looked at.
analyze_report_CallsFirst(t, E) ==
    /\ Accept(t, E)
    /\ \E image_file \in E.files, world \in Worlds(E.outputs, E.errors) :
         LET call == GenerateCall("lab",
                        [text |-> <<"LAB_SYSTEM_PROMPT">>,
                         image_url |-> encode_image(image_file),
                         chat_history |-> << >>], world)
         IN  /\ Begin(t, "/analyze_report", [image_file |-> image_file])
             /\ calls' = [calls EXCEPT ![t] = <<call>>]
             /\ IF ~FileTruthy(image_file)
                THEN Finish(t, TextResponse(400, NO_REPORT_MSG))
                ELSE IF call.ok
                THEN Finish(t, TextResponse(200, call.value))
                ELSE Finish(t, TextResponse(429, LAB_BUSY_MSG))
    /\ UNCHANGED <<answer, context>>

\* FEATURE 2: /analyze_report
analyze_report(t, E) ==
    /\ Accept(t, E)
    /\ \E image_file \in E.files, world \in Worlds(E.outputs, E.errors) :
         LET call == GenerateCall("lab",
                        [text |-> <<"LAB_SYSTEM_PROMPT">>,
                         image_url |-> encode_image(image_file),
                         chat_history |-> << >>], world)
         IN  /\ Begin(t, "/analyze_report", [image_file |-> image_file])
             /\ IF ~FileTruthy(image_file)
                THEN /\ Finish(t, TextResponse(400, NO_REPORT_MSG))
                     /\ UNCHANGED calls
                ELSE /\ calls' = [calls EXCEPT ![t] = <<call>>]
                     /\ IF call.ok
                        THEN Finish(t, TextResponse(200, call.value))
                        ELSE Finish(t, TextResponse(429, LAB_BUSY_MSG))
    /\ UNCHANGED <<answer, context>>

\* Faulty variant: the thresholds are not strict.
RiskScore_NonStrict(age, bp, chol, smoker) ==
    LET risk == (IF age >= 50 THEN 5 ELSE 0) + (IF bp >= 140 THEN 7 ELSE 0)
                + (IF chol >= 240 THEN 5 ELSE 0) + (IF smoker = "yes" THEN 8 ELSE 0)
    IN  IF risk + 2 < 35 THEN risk + 2 ELSE 35

\* the rule-based score of predict_risk
RiskScore(age, bp, chol, smoker) ==
    LET risk == (IF age > 50 THEN 5 ELSE 0) + (IF bp > 140 THEN 7 ELSE 0)
                + (IF chol > 240 THEN 5 ELSE 0) + (IF smoker = "yes" THEN 8 ELSE 0)
    IN  IF risk + 2 < 35 THEN risk + 2 ELSE 35

\* An exception no handler catches: Flask answers 500, with the traceback
\* page under debug=True and the fixed page otherwise.
Unhandled(error, debug) ==
    TextResponse(500, IF debug THEN TRACEBACK_PREFIX \o error
                      ELSE INTERNAL_SERVER_ERROR)

\* FEATURE 3: /predict_risk
predict_risk(t, E) ==
    /\ Accept(t, E)
    /\ \E data \in E.risks, world \in Worlds(E.outputs, E.errors), debug \in BOOLEAN :
         LET risk_score == RiskScore(data.age, data.bp, data.chol, data.smoker)
             call == GenerateCall("risk",
                        [text |-> <<"build_risk_prompt", data, risk_score>>,
                         image_url |-> None, chat_history |-> << >>], world)
         IN  /\ Begin(t, "/predict_risk", data)
             /\ calls' = [calls EXCEPT ![t] = <<call>>]
             /\ IF call.ok
                THEN Finish(t, JsonResponse(200,
                         <<<<INSIGHT_KEY, [type |-> "str", v |-> call.value]>>,
                           <<SCORE_KEY, [type |-> "int", v |-> risk_score]>>>>))
                ELSE Finish(t, Unhandled(call.value, debug))
    /\ UNCHANGED <<answer, context>>

\* Faulty variant: the interaction check records its exchange in chat_history.
check_interactions_Remembers(t, E) ==
    /\ Accept(t, E)
    /\ \E msg \in E.msgs, image_file \in E.files,
          world \in Worlds(E.outputs, E.errors) :
         LET user_input == Strip(FormGet(msg, << >>))
             content ==
                 IF HasImage(image_file)
                 THEN [text |-> <<"INTERACTION_CHECK_PROMPT">>
                                \o OrElse(user_input, ANALYZE_MEDS),
                       image_url |-> encode_image(image_file),
                       chat_history |-> << >>]
                 ELSE [text |-> <<"INTERACTION_CHECK_PROMPT">> \o user_input,
                       image_url |-> None, chat_history |-> << >>]
             call == GenerateCall("interactions", content, world)
         IN  /\ Begin(t, "/check_interactions",
                      [msg |-> msg, image_file |-> image_file,
                       user_input |-> user_input])
             /\ calls' = [calls EXCEPT ![t] = <<call>>]
             /\ IF call.ok
                THEN /\ resp' = [resp EXCEPT ![t] = JsonResponse(200,
                              <<<<RESULT_KEY, [type |-> "str", v |-> call.value]>>>>)]
                     /\ pc' = [pc EXCEPT ![t] = "done"]
                     /\ heap' = [heap EXCEPT ![chat_history] =
                                     @ \o <<HumanMessage(user_input),
                                            AIMessage(call.value)>>]
                     /\ UNCHANGED <<chat_history, ref>>
                ELSE Finish(t, JsonResponse(500,
                         <<<<ERROR_KEY, [type |-> "str", v |-> call.value]>>>>))
    /\ UNCHANGED <<answer, context>>

\* FEATURE 4: /check_interactions
check_interactions(t, E) ==
    /\ Accept(t, E)
    /\ \E msg \in E.msgs, image_file \in E.files,
          world \in Worlds(E.outputs, E.errors) :
         LET user_input == Strip(FormGet(msg, << >>))
             content ==
                 IF HasImage(image_file)
                 THEN [text |-> <<"INTERACTION_CHECK_PROMPT">>
                                \o OrElse(user_input, ANALYZE_MEDS),
                       image_url |-> encode_image(image_file),
                       chat_history |-> << >>]
                 ELSE [text |-> <<"INTERACTION_CHECK_PROMPT">> \o user_input,
                       image_url |-> None, chat_history |-> << >>]
             call == GenerateCall("interactions", content, world)
         IN  /\ Begin(t, "/check_interactions",
                      [msg |-> msg, image_file |-> image_file,
                       user_input |-> user_input])
             /\ calls' = [calls EXCEPT ![t] = <<call>>]
             /\ IF call.ok
                THEN Finish(t, JsonResponse(200,
                         <<<<RESULT_KEY, [type |-> "str", v |-> call.value]>>>>))
                ELSE Finish(t, JsonResponse(500,
                         <<<<ERROR_KEY, [type |-> "str", v |-> call.value]>>>>))
    /\ UNCHANGED <<answer, context>>

\* re.search(r'\{.*\}', text, re.DOTALL): the span from the first "{" to the
\* last "}" after it, or no match (<< >>)
JsonMatch(text) ==
    LET opens == {i \in 1..Len(text) : text[i] = "{"}
    IN  IF opens = {} THEN << >>
        ELSE LET first == CHOOSE i \in opens : \A j \in opens : i <= j
                 closes == {i \in (first + 1)..Len(text) : text[i] = "}"}
             IN  IF closes = {} THEN << >>
                 ELSE SubSeq(text, first,
                             CHOOSE i \in closes : \A j \in closes : j <= i)

SkipWs(s, i) ==
    LET rest == {j \in i..Len(s) : ~IsSpace(s[j])}
    IN  IF rest = {} THEN Len(s) + 1 ELSE CHOOSE j \in rest : \A k \in rest : j <= k

\* a string literal starting at i: the index after its closing quote, 0 if none
ParseString(s, i) ==
    IF i > Len(s) \/ s[i] # "\"" THEN 0
    ELSE LET quotes == {j \in (i + 1)..Len(s) : s[j] = "\""}
         IN  IF quotes = {} THEN 0
             ELSE 1 + CHOOSE j \in quotes : \A k \in quotes : j <= k

\* a JSON value starting at i (objects, strings, the empty array): the index
\* after it, 0 if malformed
RECURSIVE ParseValue(_, _)
RECURSIVE ParseMembers(_, _)
ParseMembers(s, i) ==
    LET k == ParseString(s, i)
        colon == SkipWs(s, k)
    IN  IF k = 0 \/ colon > Len(s) \/ s[colon] # ":" THEN 0
        ELSE LET v == ParseValue(s, SkipWs(s, colon + 1))
                 next == SkipWs(s, v)
             IN  IF v = 0 \/ next > Len(s) THEN 0
                 ELSE IF s[next] = "}" THEN next + 1
                 ELSE IF s[next] = "," THEN ParseMembers(s, SkipWs(s, next + 1))
                 ELSE 0

ParseValue(s, i) ==
    IF i > Len(s) THEN 0
    ELSE IF s[i] = "\"" THEN ParseString(s, i)
    ELSE IF s[i] = "[" THEN (IF SkipWs(s, i + 1) <= Len(s) /\ s[SkipWs(s, i + 1)] = "]"
                             THEN SkipWs(s, i + 1) + 1 ELSE 0)
    ELSE IF s[i] = "{" THEN (LET j == SkipWs(s, i + 1)
                             IN  IF j > Len(s) THEN 0
                                 ELSE IF s[j] = "}" THEN j + 1
                                 ELSE ParseMembers(s, j))
    ELSE 0

\* json.loads(text) returns (TRUE) or raises (FALSE)
JsonLoads(text) ==
    LET start == SkipWs(text, 1)
        end == ParseValue(text, start)
    IN  end # 0 /\ SkipWs(text, end) = Len(text) + 1

\* FEATURE 5: /generate_pdf_report
generate_pdf_report(t, E) ==
    /\ Accept(t, E)
    /\ \E notes \in E.notes, world \in Worlds(E.reports, E.errors) :
         LET call == GenerateCall("report",
                        [text |-> <<"REPORT_GENERATOR_PROMPT">> \o notes,
                         image_url |-> None, chat_history |-> << >>], world)
             json_match == JsonMatch(call.value)
         IN  /\ Begin(t, "/generate_pdf_report", [notes |-> notes])
             /\ IF notes = None \/ notes = << >>
                THEN /\ Finish(t, TextResponse(400, NO_NOTES_MSG))
                     /\ UNCHANGED calls
                ELSE /\ calls' = [calls EXCEPT ![t] = <<call>>]
                     /\ IF ~call.ok
                        THEN Finish(t, TextResponse(500,
                                 REPORT_FAILED_PREFIX \o call.value))
                        ELSE IF json_match = << >>
                        THEN Finish(t, TextResponse(500, FORMAT_FAILED_MSG))
                        ELSE IF ~JsonLoads(json_match)
                        THEN Finish(t, TextResponse(500,
                                 REPORT_FAILED_PREFIX \o JSON_DECODE_ERROR))
                        ELSE Finish(t, FileResponse(json_match))
    /\ UNCHANGED <<answer, context>>

-----------------------------------------------------------------------------
(* The environment: what clients send and what the backends do *)

MSG_HI ==
    <<" ","h","i"," ">>
MSG_CHEST_PAIN ==
    <<"I"," ","h","a","v","e"," ","C","h","e","s","t"," ","P","a","i","n">>
MSG_CHOKING ==
    <<"C","H","O","K","I","N","G">>
MSG_STROKE ==
    <<"a"," ","S","t","r","o","k","e","?">>
MSG_BLEEDING ==
    <<"b","L","e","E","d","I","n","G">>
MSG_UNCONSCIOUS ==
    <<" ","U","n","c","o","n","s","c","i","o","u","s">>
MSG_CANT_BREATHE ==
    <<"C","a","n","'","t"," ","B","r","e","a","t","h","e","!">>
OUT_OK ==
    <<"o","k">>
OUT_EMERGENCY ==
    <<"E","m","e","r","g","e","n","c","y","!">>
QUERY_STANDALONE ==
    <<"q","?">>
ERR_AUTH ==
    <<"4","0","1">>
ERR_RATE_LIMIT ==
    <<"4","2","9">>
ERR_INDEX ==
    <<"5","0","3">>
NOTES_FLU ==
    <<"f","l","u">>
REPORT_WRAPPED ==
    <<"o","k"," ","{","\"","d","\"",":","\"","f","\"","}"," ","!">>
REPORT_BARE ==
    <<"{","}">>
REPORT_NONE ==
    <<"n","o","n","e">>
REPORT_TWO ==
    <<"{","}"," ","{","}">>
REPORT_STRAY ==
    <<"{","}","}">>

Files ==
    {NoFile,
     [present |-> TRUE, filename |-> << >>, data |-> << >>],
     [present |-> TRUE, filename |-> <<"x">>, data |-> <<"bytes">>]}

EmergencyMsgs ==
    {MSG_CHEST_PAIN, MSG_CHOKING, MSG_STROKE, MSG_BLEEDING, MSG_UNCONSCIOUS,
     MSG_CANT_BREATHE}

RiskInputs ==
    [age : {50, 51}, bp : {140, 141}, chol : {240, 241}, smoker : {"yes", "no"}]
    \cup {[age |-> 60, bp |-> 150, chol |-> 250, smoker |-> "yes"]}

\* Clients that send one request at a time.
Env ==
    [solo |-> TRUE,
     bounded |-> FALSE,
     msgs |-> {None, MSG_HI} \cup EmergencyMsgs,
     files |-> Files,
     outputs |-> {OUT_OK, OUT_EMERGENCY},
     queries |-> {QUERY_STANDALONE},
     errors |-> {ERR_RATE_LIMIT},
     retrievals |-> {Returned(<<"p1", "p2", "p3">>), Raised(ERR_INDEX)},
     risks |-> RiskInputs,
     notes |-> {None, << >>, NOTES_FLU},
     reports |-> {REPORT_WRAPPED, REPORT_BARE, REPORT_NONE, REPORT_TWO,
                  REPORT_STRAY}]

MSG_DIFFICULTY_BREATHING ==
    <<"I"," ","h","a","v","e"," ","D","i","f","f","i","c","u","l","t","y"," ","B","r","e","a","t","h","i","n","g">>
MSG_SHORTNESS_OF_BREATH ==
    <<"s","h","o","r","t","n","e","s","s"," ","o","f"," ","b","r","e","a","t","h">>
MSG_NEAR_MISS ==
    <<"c","h","e","s","t","p","a","i","n">>
MSG_CHEST_PAIN_UPPER ==
    <<"C","H","E","S","T"," ","P","A","I","N">>
MSG_STROKE_LOWER ==
    <<"s","t","r","o","k","e">>

\* Clients of every endpoint, with backends that fail in two ways and may
\* return an empty message.
EnvFailover ==
    [solo |-> TRUE,
     bounded |-> FALSE,
     msgs |-> {MSG_HI, MSG_STROKE},
     files |-> {NoFile, [present |-> TRUE, filename |-> <<"x">>, data |-> <<"bytes">>]},
     outputs |-> {OUT_OK, << >>},
     queries |-> {QUERY_STANDALONE},
     errors |-> {ERR_AUTH, ERR_RATE_LIMIT},
     retrievals |-> {Returned(<<"p1", "p2", "p3">>), Raised(ERR_INDEX)},
     risks |-> {[age |-> 60, bp |-> 150, chol |-> 250, smoker |-> "yes"]},
     notes |-> {None, NOTES_FLU},
     reports |-> {REPORT_WRAPPED, REPORT_NONE}]

\* Clients of /get that try the pre-check: the keywords in several letter
\* cases, two phrases that are not keywords, and a near miss.
EnvGate ==
    [solo |-> TRUE,
     bounded |-> FALSE,
     msgs |-> EmergencyMsgs \cup
              {MSG_CHEST_PAIN_UPPER, MSG_STROKE_LOWER, MSG_DIFFICULTY_BREATHING,
               MSG_SHORTNESS_OF_BREATH, MSG_NEAR_MISS},
     files |-> {NoFile, [present |-> TRUE, filename |-> <<"x">>, data |-> <<"bytes">>]},
     outputs |-> {OUT_OK},
     queries |-> {QUERY_STANDALONE},
     errors |-> {ERR_RATE_LIMIT},
     retrievals |-> {Returned(<<"p1", "p2", "p3">>), Raised(ERR_INDEX)},
     risks |-> {},
     notes |-> {},
     reports |-> {}]

\* Clients of /get that send requests at the same time, with backends that
\* answer.
EnvConc ==
    [solo |-> FALSE,
     bounded |-> TRUE,
     msgs |-> {None, MSG_HI},
     files |-> {NoFile},
     outputs |-> {OUT_OK},
     queries |-> {QUERY_STANDALONE},
     errors |-> {},
     retrievals |-> {Returned(<<"p1", "p2", "p3">>)},
     risks |-> {},
     notes |-> {},
     reports |-> {}]

-----------------------------------------------------------------------------
(* Specification *)

Init ==
    /\ heap = [o \in ObjIds |-> << >>]
    /\ chat_history = 0
    /\ pc = [t \in Threads |-> "idle"]
    /\ endpoint = [t \in Threads |-> "none"]
    /\ req = [t \in Threads |-> << >>]
    /\ answer = [t \in Threads |-> << >>]
    /\ ref = [t \in Threads |-> {}]
    /\ calls = [t \in Threads |-> << >>]
    /\ resp = [t \in Threads |-> NoResponse]
    /\ context = [t \in Threads |-> << >>]
    /\ hist0 = [t \in Threads |-> << >>]
    /\ started = 0

Next ==
    \E t \in Threads :
        \/ Chat(t, Env)
        \/ ChatImage(t, Env)
        \/ ChatRagLoad(t)
        \/ ChatRagRetrieve(t, Env)
        \/ ChatRagAnswer(t, Env)
        \/ ChatExtendLoad(t)
        \/ ChatExtend(t)
        \/ ChatSliceLoad(t)
        \/ ChatSlice(t)
        \/ ChatStore(t)
        \/ analyze_report(t, Env)
        \/ predict_risk(t, Env)
        \/ check_interactions(t, Env)
        \/ generate_pdf_report(t, Env)
        \/ Return(t)

Spec == Init /\ [][Next]_vars


NextFailover ==
    \E t \in Threads :
        \/ Chat(t, EnvFailover)
        \/ ChatImage(t, EnvFailover)
        \/ ChatRagLoad(t)
        \/ ChatRagRetrieve(t, EnvFailover)
        \/ ChatRagAnswer(t, EnvFailover)
        \/ ChatExtendLoad(t)
        \/ ChatExtend(t)
        \/ ChatSliceLoad(t)
        \/ ChatSlice(t)
        \/ ChatStore(t)
        \/ analyze_report(t, EnvFailover)
        \/ predict_risk(t, EnvFailover)
        \/ check_interactions(t, EnvFailover)
        \/ generate_pdf_report(t, EnvFailover)
        \/ Return(t)

SpecFailover == Init /\ [][NextFailover]_vars

NextGate ==
    \E t \in Threads :
        \/ Chat(t, EnvGate)
        \/ ChatImage(t, EnvGate)
        \/ ChatRagLoad(t)
        \/ ChatRagRetrieve(t, EnvGate)
        \/ ChatRagAnswer(t, EnvGate)
        \/ ChatExtendLoad(t)
        \/ ChatExtend(t)
        \/ ChatSliceLoad(t)
        \/ ChatSlice(t)
        \/ ChatStore(t)
        \/ Return(t)

SpecGate == Init /\ [][NextGate]_vars

\* Concurrent text requests to /get, the threaded server's interleavings.
NextConc ==
    \E t \in Threads :
        \/ Chat(t, EnvConc)
        \/ ChatRagLoad(t)
        \/ ChatRagRetrieve(t, EnvConc)
        \/ ChatRagAnswer(t, EnvConc)
        \/ ChatExtendLoad(t)
        \/ ChatExtend(t)
        \/ ChatSliceLoad(t)
        \/ ChatSlice(t)
        \/ ChatStore(t)
        \/ Return(t)

SpecConc == Init /\ [][NextConc]_vars

-----------------------------------------------------------------------------
(* Properties *)

\* The Conversation State: the list chat_history names.
History == heap[chat_history]

\* s contains k, letter case ignored.
ContainsIgnoringCase(s, k) ==
    \E i \in 0..(Len(s) - Len(k)) :
        \A j \in 1..Len(k) : LowerChar(s[i + j]) = LowerChar(k[j])

\* The request of thread t is a /get whose msg holds one of the phrases.
AsksWith(t, phrases) ==
    /\ endpoint[t] = "/get"
    /\ req[t].msg # None
    /\ \E k \in phrases : ContainsIgnoringCase(req[t].msg, k)

\* The file of the request is an attached image.
CarriesImage(t) == req[t].image_file.present /\ req[t].image_file.filename # << >>

IsTrigger(r) == r = TextResponse(200, TRIGGER_EMERGENCY)

\* C1: a /get whose text contains a configured emergency phrase, in any
\* letter case, is answered TRIGGER_EMERGENCY without any backend call
\* (no generation attempt, no rewrite, no retriever query), with or without
\* an image.
C1_PreCheckShortCircuits ==
    \A t \in Threads :
        AsksWith(t, SeqToSet(emergency_keywords)) =>
            /\ pc[t] = "done"
            /\ IsTrigger(resp[t])
            /\ calls[t] = << >>

\* C1 witness: a mixed-case emergency text sent with an image was stopped.
C1_Witness ==
    \E t \in Threads :
        /\ AsksWith(t, SeqToSet(emergency_keywords))
        /\ req[t].msg = MSG_CHEST_PAIN
        /\ CarriesImage(t)
        /\ IsTrigger(resp[t])

\* The generate calls of a request that produced its answer or failed to.
AnswerCalls(t) ==
    {i \in 1..Len(calls[t]) :
        calls[t][i].op = "generate" /\ calls[t][i].purpose \in {"answer", "direct"}}

\* The /get of thread t has ended and its answer generation succeeded.
Answered(t) ==
    /\ endpoint[t] = "/get"
    /\ pc[t] = "done"
    /\ \E i \in AnswerCalls(t) : calls[t][i].ok

EMERGENCY_WORD ==
    <<"e","m","e","r","g","e","n","c","y">>

\* C2: when the generation of a /get succeeds and the answer begins with
\* the word "emergency" (any letter case), the response is TRIGGER_EMERGENCY
\* and not the generated text.
C2_PostCheck ==
    \A t \in Threads :
        Answered(t) /\ StartsWith(Lower(answer[t]), EMERGENCY_WORD) =>
            IsTrigger(resp[t])

Min(a, b) == IF a < b THEN a ELSE b

\* The roles alternate user, assistant, ... from the oldest turn.
Alternates(h) ==
    \A i \in 1..Len(h) : h[i].role = (IF i % 2 = 1 THEN "user" ELSE "assistant")

\* C3: after a successful exchange handled with no other request in flight,
\* the history has min(previous length + 2, 6) turns and alternates
\* user/assistant starting with a user turn; so after any sequence of
\* successful exchanges from the empty history.
C3_AppendThenTruncate ==
    \A t \in Threads :
        Answered(t) =>
            /\ Len(History) = Min(Len(hist0[t]) + 2, 6)
            /\ Alternates(History)

\* C3 witness: an exchange arrived at a full history and two old turns went.
C3_Witness ==
    \E t \in Threads :
        /\ Answered(t)
        /\ Len(hist0[t]) = 6
        /\ Len(History) = 6
        /\ History # hist0[t]

\* C4: a /get whose generation failed (exhausted chain on the image or the
\* text path, or a failed retrieval) leaves the history as it was when the
\* request arrived.
C4_FailureKeepsHistory ==
    \A t \in Threads :
        endpoint[t] = "/get" /\ pc[t] = "done" /\ resp[t].status = 500 =>
            History = hist0[t]

\* C4 witness: the answer generation of a text request failed after the
\* rewrite and the retrieval, with turns in the history.
C4_Witness ==
    \E t \in Threads :
        /\ endpoint[t] = "/get" /\ pc[t] = "done" /\ resp[t].status = 500
        /\ Len(calls[t]) = 3
        /\ ~calls[t][3].ok
        /\ hist0[t] # << >>

\* Every chat_model.invoke logged by any request in flight or just ended.
GenerateCalls ==
    UNION {{calls[t][i] : i \in {j \in 1..Len(calls[t]) : calls[t][j].op = "generate"}} :
           t \in Threads}

PriorityOrder == <<"primary_model", "secondary_model", "tertiary_model">>

\* C5: a generate call tries the backends in priority order, one at a time,
\* each at most once, and stops at the first that returns, giving that
\* backend's output: the attempts are a prefix of primary, secondary,
\* tertiary; all but the last one raised; a call that succeeded ends with the
\* attempt that returned its value (so with 1 and 2 failing and 3 succeeding
\* the attempts are exactly 1, 2, 3, and with 1 succeeding 2 and 3 are not
\* invoked).
C5_FailoverOrder ==
    \A c \in GenerateCalls :
        LET n == Len(c.attempts)
        IN  /\ n \in 1..Len(PriorityOrder)
            /\ \A i \in 1..n : c.attempts[i].backend = PriorityOrder[i]
            /\ \A i \in 1..(n - 1) : ~c.attempts[i].ok
            /\ c.ok = c.attempts[n].ok
            /\ c.ok => c.value = c.attempts[n].value
            /\ ~c.ok => n = Len(PriorityOrder)

\* C5 witness: backends 1 and 2 raised and backend 3 returned the answer of a
\* /get.
C5_Witness ==
    \E t \in Threads :
        /\ Answered(t)
        /\ \E i \in AnswerCalls(t) :
             /\ Len(calls[t][i].attempts) = 3
             /\ calls[t][i].ok
             /\ calls[t][i].value = OUT_OK
             /\ resp[t] = TextResponse(200, OUT_OK)

\* The generate call that ended the request of thread t in exhaustion.
Exhausted(t) ==
    /\ pc[t] = "done"
    /\ calls[t] # << >>
    /\ calls[t][Len(calls[t])].op = "generate"
    /\ ~calls[t][Len(calls[t])].ok

LastCall(t) == calls[t][Len(calls[t])]

\* C6 as stated: when every backend fails, generate fails with the last
\* underlying failure and returns no text, and a /get in that situation
\* answers 500 with the fixed busy message.
C6_ExhaustionCarriesLast ==
    \A t \in Threads :
        Exhausted(t) =>
            /\ LastCall(t).value = LastCall(t).attempts[Len(chain)].value
            /\ endpoint[t] = "/get" => resp[t] = TextResponse(500, CHAT_BUSY_MSG)

\* C6 amended: when every backend fails, generate fails with the first
\* underlying failure (each backend was tried and raised) and returns no
\* text, and a /get in that situation answers 500 with the fixed busy
\* message, never a 200 answer.
C6_ExhaustionCarriesFirst ==
    \A t \in Threads :
        Exhausted(t) =>
            /\ Len(LastCall(t).attempts) = Len(chain)
            /\ \A i \in 1..Len(chain) : ~LastCall(t).attempts[i].ok
            /\ LastCall(t).value = LastCall(t).attempts[1].value
            /\ endpoint[t] = "/get" =>
                 /\ resp[t] = TextResponse(500, CHAT_BUSY_MSG)
                 /\ answer[t] = << >>

\* C6 witness: a /get ended in exhaustion with different first and last
\* failures.
C6_Witness ==
    \E t \in Threads :
        /\ Exhausted(t)
        /\ endpoint[t] = "/get"
        /\ LastCall(t).attempts[1].value # LastCall(t).attempts[3].value
        /\ resp[t].status = 500

\* C7: a /get that carries an image and passes the pre-check never invokes
\* the query rewriter or the retriever; it makes exactly one generate call,
\* whose prompt is the user's text (the default instruction when the text is
\* empty) and the image, with no history.
C7_MultimodalBypass ==
    \A t \in Threads :
        endpoint[t] = "/get" /\ CarriesImage(t) =>
            /\ \A i \in 1..Len(calls[t]) :
                 calls[t][i].op = "generate" /\ calls[t][i].purpose = "direct"
            /\ Len(calls[t]) <= 1
            /\ pc[t] = "try" <=> (calls[t] = << >> /\ resp[t] = NoResponse)
            /\ calls[t] # << >> =>
                 /\ calls[t][1].prompt.text =
                      (IF Strip(FormGet(req[t].msg, << >>)) = << >>
                       THEN ANALYZE_THIS_IMAGE
                       ELSE Strip(FormGet(req[t].msg, << >>)))
                 /\ calls[t][1].prompt.image_url = <<"b64", req[t].image_file.data>>
                 /\ calls[t][1].prompt.chat_history = << >>

\* C7 witness: an image sent without text, with turns in the history, was
\* answered from the one direct call.
C7_Witness ==
    \E t \in Threads :
        /\ Answered(t)
        /\ CarriesImage(t)
        /\ req[t].msg = None
        /\ hist0[t] # << >>
        /\ Len(calls[t]) = 1

\* C8: when all backends fail, the body of the response of no endpoint
\* contains the text of the exception.
C8_NoProviderErrorText ==
    \A t \in Threads :
        Exhausted(t) => ~Contains(Wire(resp[t]), LastCall(t).value)

\* C9: an empty response of a backend counts as a failed attempt: generate
\* never returns the empty text as its result.
C9_EmptyResponseIsFailure ==
    \A c \in GenerateCalls :
        /\ c.ok => c.value # << >>
        /\ \A i \in 1..Len(c.attempts) :
             c.attempts[i].value = << >> => ~c.attempts[i].ok

PH_DIFFICULTY_BREATHING ==
    <<"d","i","f","f","i","c","u","l","t","y"," ","b","r","e","a","t","h","i","n","g">>
PH_SHORTNESS_OF_BREATH ==
    <<"s","h","o","r","t","n","e","s","s"," ","o","f"," ","b","r","e","a","t","h">>

\* the emergency phrases the specification lists
ListedPhrases ==
    {KW_CHEST_PAIN, PH_DIFFICULTY_BREATHING, KW_UNCONSCIOUS, KW_STROKE,
     KW_BLEEDING, KW_CHOKING, PH_SHORTNESS_OF_BREATH, KW_CANT_BREATHE}

\* C10: a /get whose text contains any of the eight listed phrases, in any
\* letter case, is answered TRIGGER_EMERGENCY.
C10_ListedPhrasesTrigger ==
    \A t \in Threads :
        AsksWith(t, ListedPhrases) => pc[t] = "done" /\ IsTrigger(resp[t])


\* The /get of thread t was stopped by the pre-check.
Stopped(t) ==
    /\ endpoint[t] = "/get"
    /\ pc[t] = "done"
    /\ IsTrigger(resp[t])
    /\ calls[t] = << >>

\* C11: a /get stopped by the pre-check leaves the history as it was when
\* the request arrived: same turns, same order, same length.
C11_StoppedKeepsHistory ==
    \A t \in Threads :
        Stopped(t) => History = hist0[t]

\* C11 witness: a request was stopped while the history held turns.
C11_Witness ==
    \E t \in Threads :
        /\ Stopped(t)
        /\ AsksWith(t, SeqToSet(emergency_keywords))
        /\ Len(hist0[t]) >= 2
        /\ History = hist0[t]


\* No request is in the middle of lines 129-130.
Quiescent == \A t \in Threads : pc[t] \in {"idle", "done"}

\* C12: no request reads or is handed a history longer than 6 turns: the
\* history in the prompt of every rewrite and answer call has at most 6
\* turns, and so has the list chat_history names whenever no request is
\* between its append and its truncation, also with requests served
\* concurrently.
C12_AtMostSixTurns ==
    /\ \A c \in GenerateCalls : Len(c.prompt.chat_history) <= 6
    /\ Quiescent => Len(History) <= 6


\* The index of the "}" that closes the "{" at index open of text, 0 when
\* it is never closed; i is the scan position, depth the braces open at i.
RECURSIVE ClosingBrace(_, _, _)
ClosingBrace(text, i, depth) ==
    IF i > Len(text) THEN 0
    ELSE IF text[i] = "{" THEN ClosingBrace(text, i + 1, depth + 1)
    ELSE IF text[i] = "}" THEN
         (IF depth = 1 THEN i ELSE ClosingBrace(text, i + 1, depth - 1))
    ELSE ClosingBrace(text, i + 1, depth)

\* The first balanced-brace span of text, << >> when there is none.
FirstBalancedObject(text) ==
    LET opens == {i \in 1..Len(text) :
                     text[i] = "{" /\ ClosingBrace(text, i + 1, 1) # 0}
    IN  IF opens = {} THEN << >>
        ELSE LET first == CHOOSE i \in opens : \A j \in opens : i <= j
             IN  SubSeq(text, first, ClosingBrace(text, first + 1, 1))

\* The report generation of thread t has ended and the model returned text.
ReportGenerated(t) ==
    /\ endpoint[t] = "/generate_pdf_report"
    /\ pc[t] = "done"
    /\ Len(calls[t]) = 1
    /\ calls[t][1].ok

\* C13: report generation renders the first balanced-brace object of the
\* model output, whatever surrounds it (prose, a second object, a stray
\* closing brace); an output with no object gives a server error and no
\* document.
C13_FirstBalancedObject ==
    \A t \in Threads :
        ReportGenerated(t) =>
            LET object == FirstBalancedObject(calls[t][1].value)
            IN  IF object # << >>
                THEN resp[t] = FileResponse(object)
                ELSE resp[t].status = 500 /\ resp[t].kind # "file"


\* The risk prediction of thread t has ended with a score.
Scored(t) ==
    /\ endpoint[t] = "/predict_risk"
    /\ pc[t] = "done"
    /\ resp[t].status = 200
    /\ resp[t].kind = "json"

\* The value of a key of a jsonify body.
Member(dict, key) ==
    dict[CHOOSE i \in 1..Len(dict) : dict[i][1] = key][2]

Bonus(condition, points) == IF condition THEN points ELSE 0

\* C14: the score returned by the risk prediction is min(base + 2, 35),
\* where base is 5 for age over 50, plus 7 for bp over 140, plus 5 for chol
\* over 240, plus 8 for smoker "yes", the thresholds strict; age 60, bp 150,
\* chol 250, smoker "yes" score 27.
C14_RiskScore ==
    \A t \in Threads :
        Scored(t) =>
            LET base == Bonus(req[t].age > 50, 5) + Bonus(req[t].bp > 140, 7)
                        + Bonus(req[t].chol > 240, 5)
                        + Bonus(req[t].smoker = "yes", 8)
                score == Member(resp[t].body, SCORE_KEY)
            IN  /\ score.type = "int"
                /\ score.v = Min(base + 2, 35)
                /\ req[t] = [age |-> 60, bp |-> 150, chol |-> 250, smoker |-> "yes"]
                       => base = 25 /\ score.v = 27

\* C14 witness: the worked example was scored 27.
C14_Witness ==
    \E t \in Threads :
        /\ Scored(t)
        /\ req[t] = [age |-> 60, bp |-> 150, chol |-> 250, smoker |-> "yes"]
        /\ Member(resp[t].body, SCORE_KEY).v = 27


\* The request of thread t has ended and lacked its required input: a lab
\* report analysis without an image, a report generation without notes.
LacksInput(t) ==
    /\ pc[t] = "done"
    /\ \/ /\ endpoint[t] = "/analyze_report"
          /\ ~CarriesImage(t)
       \/ /\ endpoint[t] = "/generate_pdf_report"
          /\ req[t].notes \in {None, << >>}

\* C15: a lab report analysis without an image and a report generation
\* without notes answer with status 400 and make no backend attempt.
C15_MissingInputIsClientError ==
    \A t \in Threads :
        LacksInput(t) =>
            /\ resp[t].status = 400
            /\ calls[t] = << >>

\* C15 witness: a lab report analysis came without an image and was
\* refused.
C15_Witness ==
    \E t \in Threads :
        /\ LacksInput(t)
        /\ endpoint[t] = "/analyze_report"
        /\ req[t].image_file = NoFile
        /\ resp[t] = TextResponse(400, NO_REPORT_MSG)


\* The history h holds the exchange of thread t: its user turn immediately
\* followed by its assistant turn.
HoldsExchange(h, t) ==
    \E i \in 1..(Len(h) - 1) :
        SubSeq(h, i, i + 1) = Exchange(req[t].user_input, answer[t])

\* C16: when two /get requests that both arrived at the empty history have
\* both ended with an answer, the history has 4 turns and holds the
\* exchange of each, user turn then assistant turn, however the two
\* requests were interleaved.
C16_NoLostExchange ==
    \A t \in Threads, u \in Threads :
        /\ t # u
        /\ Answered(t) /\ Answered(u)
        /\ hist0[t] = << >> /\ hist0[u] = << >>
        => /\ Len(History) = 4
           /\ HoldsExchange(History, t)
           /\ HoldsExchange(History, u)


\* The request of thread t is a /get without an attached image.
TextOnly(t) ==
    /\ endpoint[t] = "/get"
    /\ ~HasImage(req[t].image_file)

\* The steps of the text path in order; the rewrite is a model call only
\* when there are earlier turns.
Pipeline(t) ==
    IF hist0[t] = << >> THEN <<"retrieve", "answer">>
    ELSE <<"rewrite", "retrieve", "answer">>

\* C17: on the text path of a /get handled with no other request in flight
\* the steps come in the order pre-check, query rewrite, index query,
\* answer generation, history update, response. A stopped request makes no
\* call; each call starts after the one before it has returned; the rewrite
\* gets the input and the history; the index is asked for the top 3 with
\* the rewritten query; the answer is generated from the original input and
\* the history as it was on arrival; the history changes only after the
\* answer has been generated, and the response comes last.
C17_PipelineOrder ==
    \A t \in Threads :
        TextOnly(t) =>
            LET n == Len(calls[t])
                input == req[t].user_input
            IN  /\ PreCheck(input) => n = 0
                /\ n <= Len(Pipeline(t))
                /\ \A i \in 1..n :
                      /\ calls[t][i].purpose = Pipeline(t)[i]
                      /\ i < n => calls[t][i].ok
                      /\ calls[t][i].purpose \in {"rewrite", "answer"} =>
                            /\ calls[t][i].prompt.text = input
                            /\ calls[t][i].prompt.chat_history = hist0[t]
                      /\ calls[t][i].purpose = "retrieve" =>
                            /\ calls[t][i].prompt.k = 3
                            /\ calls[t][i].prompt.query =
                                  (IF i > 1 THEN calls[t][i - 1].value ELSE input)
                /\ History # hist0[t] =>
                      /\ n = Len(Pipeline(t))
                      /\ calls[t][n].ok
                /\ resp[t] # NoResponse => pc[t] = "done"
                /\ Answered(t) =>
                      /\ resp[t] = TextResponse(200, calls[t][n].value)
                      /\ History = LastN(hist0[t] \o Exchange(input, calls[t][n].value), 6)

\* C17 witness: a text request with earlier turns went through rewrite,
\* index query with the rewritten text, and answer, and was answered.
C17_Witness ==
    \E t \in Threads :
        /\ TextOnly(t)
        /\ Answered(t)
        /\ hist0[t] # << >>
        /\ Len(calls[t]) = 3
        /\ calls[t][2].prompt.query = QUERY_STANDALONE
        /\ calls[t][2].prompt.query # req[t].user_input
        /\ calls[t][3].prompt.text = req[t].user_input


\* The index query of the text request of thread t failed.
RetrievalFailed(t) ==
    /\ TextOnly(t)
    /\ \E i \in 1..Len(calls[t]) :
          calls[t][i].op = "retriever" /\ ~calls[t][i].ok

\* C18: when the index query of a text request fails, no answer generation
\* is called, the response is the generic failure (status 500 with the
\* fixed message), and the history is as it was when the request arrived.
C18_RetrievalFailureFailsAnswer ==
    \A t \in Threads :
        RetrievalFailed(t) =>
            /\ AnswerCalls(t) = {}
            /\ pc[t] = "done"
            /\ resp[t] = TextResponse(500, CHAT_BUSY_MSG)
            /\ History = hist0[t]

\* C18 witness: the index failed after a rewrite, with turns in the
\* history.
C18_Witness ==
    \E t \in Threads :
        /\ RetrievalFailed(t)
        /\ Len(calls[t]) = 2
        /\ calls[t][1].purpose = "rewrite"
        /\ calls[t][2].value = ERR_INDEX
        /\ hist0[t] # << >>
        /\ resp[t].status = 500


\* The index queries of the request of thread t.
RetrieverCalls(t) ==
    {i \in 1..Len(calls[t]) : calls[t][i].op = "retriever"}

\* C19: a text request that arrives at the empty history queries the index
\* with the user input itself: the query is made first, with no rewrite
\* call before it, and its text is the input of the request.
C19_FirstQueryIsInput ==
    \A t \in Threads :
        TextOnly(t) /\ hist0[t] = << >> =>
            \A i \in RetrieverCalls(t) :
                /\ i = 1
                /\ calls[t][i].prompt.query = req[t].user_input

\* C19 witness: the first request of a conversation, "hi", reached the
\* index as "hi".
C19_Witness ==
    \E t \in Threads :
        /\ TextOnly(t)
        /\ hist0[t] = << >>
        /\ req[t].msg = MSG_HI
        /\ RetrieverCalls(t) = {1}
        /\ calls[t][1].prompt.query = <<"h", "i">>


AuxiliaryRoutes ==
    {"/analyze_report", "/predict_risk", "/check_interactions",
     "/generate_pdf_report"}

\* C20: the lab report analysis, the risk prediction, the interaction check
\* and the report generation leave the history as it was when the request
\* arrived, whatever their outcome, hand no turn of it to a model, and make
\* no index query.
C20_AuxiliaryLeaveHistory ==
    \A t \in Threads :
        endpoint[t] \in AuxiliaryRoutes =>
            /\ History = hist0[t]
            /\ RetrieverCalls(t) = {}
            /\ \A i \in 1..Len(calls[t]) : calls[t][i].prompt.chat_history = << >>

\* C20 witness: an interaction check was answered while the history held
\* turns.
C20_Witness ==
    \E t \in Threads :
        /\ endpoint[t] = "/check_interactions"
        /\ pc[t] = "done"
        /\ resp[t].status = 200
        /\ Len(calls[t]) = 1
        /\ Len(hist0[t]) >= 2
        /\ History = hist0[t]

=============================================================================
